---- MODULE Spec2Model ----
(***************************************************************************)
(* The persistence layer of juicebox (db/index.js) as a state machine.     *)
(* The four tables are sets of rows.  Every `await client.query(...)` is   *)
(* one atomic statement of the store; statements of different in-flight    *)
(* calls interleave freely, because no call is wrapped in a transaction.   *)
(* A call's position between statements is kept in pc, its locals in the   *)
(* other per-caller variables.                                             *)
(***************************************************************************)
EXTENDS Integers, Sequences, FiniteSets, TLC

\* ------------------------------------------------------------- bounds
\* most posts the store holds
MaxPosts == 2
\* longest tag-name sequence a caller passes
MaxLen == 2

Procs == {1, 2}
Names == {"a", "b"}
Usernames == {"u1", "u2"}

\* the arguments callers pass
TagSeqs == UNION {[1..n -> Names] : n \in 0..MaxLen}
RaceSeqs == {<<>>, <<"a">>, <<"b">>, <<"a", "a">>, <<"a", "b">>}
PostIds == 1..(MaxPosts + 1)
UserIds == 1..(Cardinality(Usernames) + 1)
AuthorIds == {1, 2}
NewPost(a, ts) == [authorId |-> a, title |-> "t1", content |-> "c1", tags |-> ts]
NewPostNoTags(a) == [authorId |-> a, title |-> "t1", content |-> "c1"]
NewUser(u) == [username |-> u, password |-> "pw", name |-> "n1", location |-> "l1"]

VARIABLES
  users,      \* table users: rows [id, username, password, name, location]
  posts,      \* table posts: rows [id, authorId, title, content]
  tags,       \* table tags: rows [id, name]
  post_tags,  \* table post_tags: rows [postId, tagId]
  pc,         \* pc[p]: the await the call of caller p is suspended at
  call,       \* call[p]: the exported function called and its arguments
  tagList,    \* tagList[p]: what createTags returned to the call
  pending,    \* pending[p]: tag ids whose createPostTag statement is queued
  fetch,      \* fetch[p]: the getPostById invocations in flight
  out,        \* out[p]: aggregates the finished getPostById invocations returned
  ret,        \* ret[p]: what the call returned
  err,        \* err[p]: what the call threw
  postId,     \* postId[p]: the post the call links tags to and reads back
  user,       \* user[p]: the row getUserById selected
  prior,      \* prior[p]: tag ids linked to the post when the call was made
  listed      \* listed[p]: the post ids in the order the id-listing query gave them

vars == <<users, posts, tags, post_tags, pc, call, tagList, pending, fetch,
          out, ret, err, postId, user, prior, listed>>
store == <<users, posts, tags, post_tags>>

\* ------------------------------------------------------------- values
Undefined == [kind |-> "undefined", val |-> {}]
NoCall == [name |-> "none", id |-> 0, fields |-> <<>>]
NoTagList == [def |-> FALSE, rows |-> {}]

\* the next value of a table's serial key (no row is ever deleted from
\* users, posts or tags)
NextId(table) == Cardinality(table) + 1

Ids(table) == {r.id : r \in table}
Range(s) == {s[i] : i \in 1..Len(s)}

\* Object.keys(fields) after `delete fields.tags`
Keys(fields) == DOMAIN fields \ {"tags"}
\* `const { tags } = fields` is not undefined
HasTags(fields) == "tags" \in DOMAIN fields
\* createPost's `tags = []` default
TagsOrDefault(fields) == IF HasTags(fields) THEN fields.tags ELSE <<>>

\* `update <table> set "k"=v, ... where id=...` applied to one row
SetColumns(row, fields) ==
  [k \in DOMAIN row |-> IF k \in Keys(fields) THEN fields[k] ELSE row[k]]

\* ------------------------------------------------------------- statements
\* (mutant of InsertTags: the insert without its `on conflict` clause)
RECURSIVE InsertTagsNoConflict(_, _)
InsertTagsNoConflict(table, names) ==
  IF names = <<>> THEN table
  ELSE InsertTagsNoConflict(
         table \cup {[id |-> NextId(table), name |-> Head(names)]},
         Tail(names))
\* insert into tags(name) values (..), (..) on conflict (name) do nothing
RECURSIVE InsertTags(_, _)
InsertTags(table, names) ==
  IF names = <<>> THEN table
  ELSE InsertTags(
         IF \E t \in table : t.name = Head(names)
           THEN table
           ELSE table \cup {[id |-> NextId(table), name |-> Head(names)]},
         Tail(names))

\* select * from tags where tags.name in (..)
SelectTagsByName(table, names) == {t \in table : t.name \in Range(names)}

\* (mutant of DeleteOtherLinks: the delete without `and "postId"=$1`)
DeleteOtherLinksAnyPost(table, pid, keep) == {l \in table : l.tagId \in keep}

\* (mutant of DeleteOtherLinks: every join row of the post deleted, the
\* desired ones left to the inserts that follow)
DeleteAllLinks(table, pid, keep) == {l \in table : l.postId # pid}

\* (mutant of DeleteOtherLinks: `in` for `not in`)
DeleteKeptLinks(table, pid, keep) ==
  {l \in table : ~(l.postId = pid /\ l.tagId \in keep)}

\* delete from post_tags where "tagId" not in (..) and "postId"=$1
DeleteOtherLinks(table, pid, keep) ==
  {l \in table : ~(l.postId = pid /\ l.tagId \notin keep)}

\* insert into post_tags values ($1, $2) on conflict do nothing
InsertLink(table, pid, tagId) ==
  table \cup {[postId |-> pid, tagId |-> tagId]}

\* the foreign keys of post_tags
LinkAllowed(pid, tagId) == pid \in Ids(posts) /\ tagId \in Ids(tags)

\* (mutant of LinkAccepted: the insert without `on conflict do nothing`)
LinkAcceptedNoConflictClause(table, pid, tagId) ==
  LinkAllowed(pid, tagId) /\ [postId |-> pid, tagId |-> tagId] \notin table

\* createPostTag's insert raises no error: the keys exist, and with
\* `on conflict do nothing` a pair that is already in the table is skipped
LinkAccepted(table, pid, tagId) == LinkAllowed(pid, tagId)

\* select tags.* from tags join post_tags ... where post_tags."postId"=$1
TagsOfPost(pid) ==
  {t \in tags : \E l \in post_tags : l.postId = pid /\ l.tagId = t.id}

LinkedTagIds(pid) == {l.tagId : l \in {x \in post_tags : x.postId = pid}}

\* select id, username, name, location from users where id=$1
UserProjection(u) ==
  [id |-> u.id, username |-> u.username, name |-> u.name, location |-> u.location]
AuthorOf(post) == {UserProjection(u) : u \in {x \in users : x.id = post.authorId}}

\* (mutant of Aggregate: without `delete post.authorId`)
AggregateKeepsAuthorId(post, ptags, author) ==
  [k \in DOMAIN post \cup {"tags", "author"} |->
     IF k = "tags" THEN ptags ELSE IF k = "author" THEN author ELSE post[k]]

\* post.tags = tags; post.author = author; delete post.authorId
Aggregate(post, ptags, author) ==
  [k \in (DOMAIN post \ {"authorId"}) \cup {"tags", "author"} |->
     IF k = "tags" THEN ptags ELSE IF k = "author" THEN author ELSE post[k]]

\* a getPostById invocation that has issued no statement yet
NewFetch(pid) == [id |-> pid, stage |-> "post", post |-> {}, tags |-> {}]

\* ------------------------------------------------------------- locals
\* the locals of caller p as one record, and their assignment
Locals(p) ==
  [pc |-> pc[p], tagList |-> tagList[p], pending |-> pending[p],
   fetch |-> fetch[p], out |-> out[p], ret |-> ret[p], err |-> err[p],
   postId |-> postId[p], user |-> user[p], listed |-> listed[p]]

Apply(p, l) ==
  /\ pc' = [pc EXCEPT ![p] = l.pc]
  /\ tagList' = [tagList EXCEPT ![p] = l.tagList]
  /\ pending' = [pending EXCEPT ![p] = l.pending]
  /\ fetch' = [fetch EXCEPT ![p] = l.fetch]
  /\ out' = [out EXCEPT ![p] = l.out]
  /\ ret' = [ret EXCEPT ![p] = l.ret]
  /\ err' = [err EXCEPT ![p] = l.err]
  /\ postId' = [postId EXCEPT ![p] = l.postId]
  /\ user' = [user EXCEPT ![p] = l.user]
  /\ listed' = [listed EXCEPT ![p] = l.listed]

IdleLocals ==
  [pc |-> "idle", tagList |-> NoTagList, pending |-> {}, fetch |-> {},
   out |-> {}, ret |-> [kind |-> "none", val |-> {}], err |-> "",
   postId |-> 0, user |-> {}, listed |-> <<>>]

\* `throw` out of the call, `return` from the call
Throw(l, e) == [l EXCEPT !.pc = "failed", !.err = e]
Return(l, r) == [l EXCEPT !.pc = "done", !.ret = r]

\* ------------------------------------------------------------- control flow
\* `await getPostById(id)`: start one invocation and wait at `at`
StartRead(l, at) ==
  [l EXCEPT !.pc = at, !.fetch = {NewFetch(l.postId)}, !.out = {}]

\* (mutant of AddTagsToPost: the post read back with no link insert started)
AddTagsToPostNoInsert(l, T) ==
  IF ~T.def THEN Throw(l, "TypeError") ELSE StartRead(l, "atp_read")

\* addTagsToPost(postId, tagList) up to its first await
AddTagsToPost(l, T) ==
  IF ~T.def THEN Throw(l, "TypeError")
  ELSE IF T.rows = {} THEN StartRead(l, "atp_read")
  ELSE [l EXCEPT !.pc = "links", !.pending = Ids(T.rows)]

\* what the caller of createTags does with the value T it returned
AfterCreateTags(l, c, T) ==
  LET l1 == [l EXCEPT !.tagList = T] IN
  CASE c.name = "createTags" ->
         Return(l1, IF T.def THEN [kind |-> "tags", val |-> T.rows] ELSE Undefined)
    [] c.name = "createPost" -> AddTagsToPost(l1, T)
    [] OTHER ->
         \* updatePost: tagList.map(...) builds the id string of the delete
         IF ~T.def THEN Throw(l1, "TypeError") ELSE [l1 EXCEPT !.pc = "up_delete"]

\* (mutant of CreateTags: the select issued without the insert before it)
CreateTagsSelectOnly(l, c, names) ==
  IF Len(names) = 0 THEN AfterCreateTags(l, c, NoTagList)
  ELSE [l EXCEPT !.pc = "ct_select"]

\* createTags(names) up to its first await
CreateTags(l, c, names) ==
  IF Len(names) = 0 THEN AfterCreateTags(l, c, NoTagList)
  ELSE [l EXCEPT !.pc = "ct_insert"]

\* the names the call passes to createTags
TagNames(c) ==
  IF c.name = "createPost" THEN TagsOrDefault(c.fields) ELSE c.fields.tags

\* updatePost after its column update
UpdatePostTags(l, c) ==
  IF ~HasTags(c.fields) THEN StartRead(l, "read")
  ELSE CreateTags(l, c, c.fields.tags)

\* (mutant of ListResult: the aggregates in the reverse of the listing order)
ListResultReversed(order, aggs) ==
  [i \in 1..Len(order) |->
     CHOOSE a \in aggs : a.id = order[Len(order) + 1 - i]]

\* `await Promise.all(postIds.map(post => getPostById(post.id)))`: the
\* aggregates in the order of the ids mapped, whatever order they finished in
ListResult(order, aggs) ==
  [i \in 1..Len(order) |-> CHOOSE a \in aggs : a.id = order[i]]

\* what the awaiting code does once every getPostById invocation returned
ReadDone(l, c) ==
  CASE l.pc = "atp_read" /\ c.name = "updatePost" -> StartRead(l, "read")
    [] l.pc = "list_read" /\ c.name = "getUserById" ->
         Return(l, [kind |-> "user",
                    val |-> {[k \in DOMAIN u \cup {"posts"} |->
                                IF k = "posts" THEN ListResult(l.listed, l.out)
                                ELSE u[k]] : u \in l.user}])
    [] l.pc = "list_read" ->
         Return(l, [kind |-> "posts", val |-> ListResult(l.listed, l.out)])
    [] OTHER -> Return(l, [kind |-> "post", val |-> l.out])

\* the orders in which a select without `order by` can list the ids S
Orders(S) == {s \in [1..Cardinality(S) -> S] : Range(s) = S}

\* `const { rows: postIds } = await client.query(...)` gave the ids in
\* `order`; one getPostById invocation is started for each
ListPosts(l, c, order) ==
  LET l1 == [l EXCEPT !.pc = "list_read", !.out = {}, !.listed = order,
                      !.fetch = {NewFetch(order[i]) : i \in 1..Len(order)}]
  IN IF order = <<>> THEN ReadDone(l1, c) ELSE l1

\* ------------------------------------------------------------- Init
\* no call is in flight
LocalsInit ==
  /\ pc = [p \in Procs |-> "idle"]
  /\ call = [p \in Procs |-> NoCall]
  /\ tagList = [p \in Procs |-> NoTagList]
  /\ pending = [p \in Procs |-> {}]
  /\ fetch = [p \in Procs |-> {}]
  /\ out = [p \in Procs |-> {}]
  /\ ret = [p \in Procs |-> IdleLocals.ret]
  /\ err = [p \in Procs |-> ""]
  /\ postId = [p \in Procs |-> 0]
  /\ user = [p \in Procs |-> {}]
  /\ prior = [p \in Procs |-> {}]
  /\ listed = [p \in Procs |-> <<>>]

\* the empty store
Init ==
  /\ LocalsInit
  /\ users = {} /\ posts = {} /\ tags = {} /\ post_tags = {}

\* caller p enters the exported function c.name
Enter(p, c, l) ==
  /\ pc[p] = "idle"
  /\ call' = [call EXCEPT ![p] = c]
  /\ Apply(p, l)

\* ------------------------------------------------------------- TAGS
\* createTags(tagList)
CallCreateTags(p, names) ==
  LET c == [name |-> "createTags", id |-> 0, fields |-> [tags |-> names]] IN
  /\ Enter(p, c, CreateTags(Locals(p), c, names))
  /\ UNCHANGED <<store, prior>>

\* createTags: insert into tags ... on conflict (name) do nothing
CtInsert(p) ==
  /\ pc[p] = "ct_insert"
  /\ tags' = InsertTags(tags, TagNames(call[p]))
  /\ Apply(p, [Locals(p) EXCEPT !.pc = "ct_select"])
  /\ UNCHANGED <<users, posts, post_tags, call, prior>>

\* createTags: select * from tags where tags.name in (...); return rows
CtSelect(p) ==
  /\ pc[p] = "ct_select"
  /\ Apply(p, AfterCreateTags(Locals(p), call[p],
                [def |-> TRUE, rows |-> SelectTagsByName(tags, TagNames(call[p]))]))
  /\ UNCHANGED <<store, call, prior>>

\* ------------------------------------------------------------- POST_TAGS
\* createPostTag(postId, tagId), one of the promises addTagsToPost started.
\* Promise.all rejects at the first failure; the other statements stay queued.
LinkInsert(p, t) ==
  /\ t \in pending[p]
  /\ LET l == [Locals(p) EXCEPT !.pending = @ \ {t}]
         ok == LinkAccepted(post_tags, postId[p], t)
     IN /\ post_tags' = IF ok THEN InsertLink(post_tags, postId[p], t) ELSE post_tags
        /\ Apply(p, IF pc[p] # "links" THEN l
                    ELSE IF ~ok THEN Throw(l, "StoreError")
                    ELSE IF l.pending = {} THEN StartRead(l, "atp_read")
                    ELSE l)
  /\ UNCHANGED <<users, posts, tags, call, prior>>

\* a tag object whose id no row of tags has
NoSuchTag == [id |-> NextId(tags), name |-> "none"]

\* addTagsToPost(postId, tagList), called with the tag objects T
CallAddTagsToPost(p, pid, T) ==
  LET c == [name |-> "addTagsToPost", id |-> pid, fields |-> <<>>]
      tl == [def |-> TRUE, rows |-> T]
  IN /\ Enter(p, c, AddTagsToPost([Locals(p) EXCEPT !.postId = pid, !.tagList = tl], tl))
     /\ prior' = [prior EXCEPT ![p] = LinkedTagIds(pid)]
     /\ UNCHANGED store

\* ------------------------------------------------------------- POSTS
\* getPostById: select * from posts where id=$1; throw if there is no row
FetchPost(p, f) ==
  /\ f \in fetch[p] /\ f.stage = "post"
  /\ LET rows == {r \in posts : r.id = f.id}
         l == Locals(p)
         waiting == pc[p] \in {"read", "atp_read", "list_read"}
     IN Apply(p, IF rows = {}
                   THEN (IF waiting
                           THEN Throw([l EXCEPT !.fetch = @ \ {f}], "PostNotFoundError")
                           ELSE [l EXCEPT !.fetch = @ \ {f}])
                   ELSE [l EXCEPT !.fetch =
                           (@ \ {f}) \cup {[f EXCEPT !.stage = "tags", !.post = rows]}])
  /\ UNCHANGED <<store, call, prior>>

\* getPostById: select tags.* from tags join post_tags ...
FetchTags(p, f) ==
  /\ f \in fetch[p] /\ f.stage = "tags"
  /\ Apply(p, [Locals(p) EXCEPT !.fetch =
                 (@ \ {f}) \cup {[f EXCEPT !.stage = "author", !.tags = TagsOfPost(f.id)]}])
  /\ UNCHANGED <<store, call, prior>>

\* getPostById: select the author, assemble the aggregate and return it
FetchAuthor(p, f) ==
  /\ f \in fetch[p] /\ f.stage = "author"
  /\ LET agg == {Aggregate(r, f.tags, AuthorOf(r)) : r \in f.post}
         l == [Locals(p) EXCEPT !.fetch = @ \ {f}, !.out = @ \cup agg]
         waiting == pc[p] \in {"read", "atp_read", "list_read"}
     IN Apply(p, IF waiting /\ l.fetch = {} THEN ReadDone(l, call[p]) ELSE l)
  /\ UNCHANGED <<store, call, prior>>

\* getPostById(postId)
CallGetPostById(p, pid) ==
  LET c == [name |-> "getPostById", id |-> pid, fields |-> <<>>] IN
  /\ Enter(p, c, StartRead([Locals(p) EXCEPT !.postId = pid], "read"))
  /\ UNCHANGED <<store, prior>>

\* createPost({authorId, title, content, tags = []})
CallCreatePost(p, fields) ==
  LET c == [name |-> "createPost", id |-> 0, fields |-> fields] IN
  /\ Cardinality(posts) + Cardinality({q \in Procs : pc[q] = "cp_insert"}) < MaxPosts
  /\ Enter(p, c, [Locals(p) EXCEPT !.pc = "cp_insert"])
  /\ UNCHANGED <<store, prior>>

\* createPost: insert into posts("authorId", title, content) ... returning *
CpInsert(p) ==
  /\ pc[p] = "cp_insert"
  /\ LET c == call[p]
         row == [id |-> NextId(posts), authorId |-> c.fields.authorId,
                 title |-> c.fields.title, content |-> c.fields.content]
     IN IF c.fields.authorId \notin Ids(users)
          THEN /\ posts' = posts
               /\ Apply(p, Throw(Locals(p), "StoreError"))
          ELSE /\ posts' = posts \cup {row}
               /\ Apply(p, CreateTags([Locals(p) EXCEPT !.postId = row.id], c,
                                      TagsOrDefault(c.fields)))
  /\ UNCHANGED <<users, tags, post_tags, call, prior>>

\* updatePost(postId, fields)
CallUpdatePost(p, pid, fields) ==
  LET c == [name |-> "updatePost", id |-> pid, fields |-> fields]
      l == [Locals(p) EXCEPT !.postId = pid]
  IN /\ Enter(p, c, IF Keys(fields) # {} THEN [l EXCEPT !.pc = "up_update"]
                    ELSE UpdatePostTags(l, c))
     /\ prior' = [prior EXCEPT ![p] = LinkedTagIds(pid)]
     /\ UNCHANGED store

\* (mutant of UpUpdate: the update without its `where` clause)
UpUpdateEveryRow(p) ==
  /\ pc[p] = "up_update"
  /\ posts' = {SetColumns(r, call[p].fields) : r \in posts}
  /\ Apply(p, UpdatePostTags(Locals(p), call[p]))
  /\ UNCHANGED <<users, tags, post_tags, call, prior>>

\* (mutant of UpUpdate: the update undone when the code after it throws)
UpUpdateRolledBack(p) ==
  /\ pc[p] = "up_update"
  /\ LET l == UpdatePostTags(Locals(p), call[p]) IN
     /\ posts' = IF l.pc = "failed" THEN posts
                 ELSE {IF r.id = call[p].id THEN SetColumns(r, call[p].fields) ELSE r :
                         r \in posts}
     /\ Apply(p, l)
  /\ UNCHANGED <<users, tags, post_tags, call, prior>>

\* updatePost: update posts set ... where id=${postId}
UpUpdate(p) ==
  /\ pc[p] = "up_update"
  /\ posts' = {IF r.id = call[p].id THEN SetColumns(r, call[p].fields) ELSE r : r \in posts}
  /\ Apply(p, UpdatePostTags(Locals(p), call[p]))
  /\ UNCHANGED <<users, tags, post_tags, call, prior>>

\* updatePost: delete from post_tags where "tagId" not in (...) and "postId"=$1
UpDelete(p) ==
  /\ pc[p] = "up_delete"
  /\ LET keep == Ids(tagList[p].rows) IN
     IF keep = {}
       THEN /\ post_tags' = post_tags
            /\ Apply(p, Throw(Locals(p), "StoreError"))
       ELSE /\ post_tags' = DeleteOtherLinks(post_tags, call[p].id, keep)
            /\ Apply(p, AddTagsToPost(Locals(p), tagList[p]))
  /\ UNCHANGED <<users, posts, tags, call, prior>>

\* ------------------------------------------------------------- USERS
\* createUser({username, password, name, location})
CallCreateUser(p, fields) ==
  LET c == [name |-> "createUser", id |-> 0, fields |-> fields] IN
  /\ Enter(p, c, [Locals(p) EXCEPT !.pc = "cu_insert"])
  /\ UNCHANGED <<store, prior>>

\* (mutant of InsertUser: the insert without its `on conflict` clause)
InsertUserNoConflict(table, fields) ==
  {[id |-> NextId(table), username |-> fields.username,
    password |-> fields.password, name |-> fields.name,
    location |-> fields.location]}

\* insert into users ... on conflict (username) do nothing returning *
InsertUser(table, fields) ==
  IF \E u \in table : u.username = fields.username THEN {}
  ELSE {[id |-> NextId(table), username |-> fields.username,
         password |-> fields.password, name |-> fields.name,
         location |-> fields.location]}

CuInsert(p) ==
  /\ pc[p] = "cu_insert"
  /\ LET rows == InsertUser(users, call[p].fields) IN
     /\ users' = users \cup rows
     /\ Apply(p, Return(Locals(p),
                   IF rows = {} THEN Undefined ELSE [kind |-> "user", val |-> rows]))
  /\ UNCHANGED <<posts, tags, post_tags, call, prior>>

\* (mutant of UpdateUserEntry: no early return on an empty setString)
UpdateUserEntryNoReturn(l, fields) == [l EXCEPT !.pc = "uu_update"]

\* updateUser(id, fields = {})
UpdateUserEntry(l, fields) ==
  IF DOMAIN fields = {} THEN Return(l, Undefined) ELSE [l EXCEPT !.pc = "uu_update"]

CallUpdateUser(p, id, fields) ==
  LET c == [name |-> "updateUser", id |-> id, fields |-> fields] IN
  /\ Enter(p, c, UpdateUserEntry(Locals(p), fields))
  /\ UNCHANGED <<store, prior>>

\* update users set ... where id=${id} returning *
UuUpdate(p) ==
  /\ pc[p] = "uu_update"
  /\ LET rows == {SetColumns(u, call[p].fields) : u \in {x \in users : x.id = call[p].id}}
         clash == \E r \in rows : \E u \in users : u.id # r.id /\ u.username = r.username
     IN IF clash
          THEN /\ users' = users
               /\ Apply(p, Throw(Locals(p), "StoreError"))
          ELSE /\ users' = {u \in users : u.id # call[p].id} \cup rows
               /\ Apply(p, Return(Locals(p),
                      IF rows = {} THEN Undefined ELSE [kind |-> "user", val |-> rows]))
  /\ UNCHANGED <<posts, tags, post_tags, call, prior>>

\* getUserById(userId)
CallGetUserById(p, id) ==
  LET c == [name |-> "getUserById", id |-> id, fields |-> <<>>] IN
  /\ Enter(p, c, [Locals(p) EXCEPT !.pc = "gu_user"])
  /\ UNCHANGED <<store, prior>>

\* (mutant of GetUserByIdFound: no early return when there is no row)
GetUserByIdNoReturn(l, rows) == [l EXCEPT !.pc = "gu_list", !.user = rows]

\* getUserById: what follows the select of the user row
GetUserByIdFound(l, rows) ==
  IF rows = {} THEN Return(l, Undefined) ELSE [l EXCEPT !.pc = "gu_list", !.user = rows]

\* select id, name, username, location from users where id=${userId}
GuUser(p) ==
  /\ pc[p] = "gu_user"
  /\ Apply(p, GetUserByIdFound(Locals(p),
                {UserProjection(u) : u \in {x \in users : x.id = call[p].id}}))
  /\ UNCHANGED <<store, call, prior>>

\* getPostsByUser: select id from posts where "authorId"=...; then
\* Promise.all(postIds.map(getPostById))
GuList(p) ==
  /\ pc[p] = "gu_list"
  /\ LET ids == {r.id : r \in {x \in posts : \E u \in user[p] : x.authorId = u.id}}
     IN \E order \in Orders(ids) : Apply(p, ListPosts(Locals(p), call[p], order))
  /\ UNCHANGED <<store, call, prior>>

\* getPostsByUser(userId)
CallGetPostsByUser(p, id) ==
  LET c == [name |-> "getPostsByUser", id |-> id, fields |-> <<>>] IN
  /\ Enter(p, c, [Locals(p) EXCEPT !.pc = "pu_list"])
  /\ UNCHANGED <<store, prior>>

\* getPostsByUser: select id from posts where "authorId"=${userId}
PuList(p) ==
  /\ pc[p] = "pu_list"
  /\ LET ids == {r.id : r \in {x \in posts : x.authorId = call[p].id}}
     IN \E order \in Orders(ids) : Apply(p, ListPosts(Locals(p), call[p], order))
  /\ UNCHANGED <<store, call, prior>>

\* getAllPosts()
CallGetAllPosts(p) ==
  LET c == [name |-> "getAllPosts", id |-> 0, fields |-> <<>>] IN
  /\ Enter(p, c, [Locals(p) EXCEPT !.pc = "all_list"])
  /\ UNCHANGED <<store, prior>>

\* getAllPosts: select id from posts
AllList(p) ==
  /\ pc[p] = "all_list"
  /\ \E order \in Orders(Ids(posts)) : Apply(p, ListPosts(Locals(p), call[p], order))
  /\ UNCHANGED <<store, call, prior>>

\* getPostsByTagName(tagName)
CallGetPostsByTagName(p, name) ==
  LET c == [name |-> "getPostsByTagName", id |-> 0, fields |-> [tagName |-> name]] IN
  /\ Enter(p, c, [Locals(p) EXCEPT !.pc = "tn_list"])
  /\ UNCHANGED <<store, prior>>

\* select posts.id from posts join post_tags on posts.id=post_tags."postId"
\* join tags on tags.id=post_tags."tagId" where tags.name=$1
PostIdsByTagName(name) ==
  {r.id : r \in {x \in posts :
     \E l \in post_tags : \E t \in tags :
       x.id = l.postId /\ t.id = l.tagId /\ t.name = name}}

\* getPostsByTagName: the id-listing query
TnList(p) ==
  /\ pc[p] = "tn_list"
  /\ \E order \in Orders(PostIdsByTagName(call[p].fields.tagName)) :
       Apply(p, ListPosts(Locals(p), call[p], order))
  /\ UNCHANGED <<store, call, prior>>

\* the caller has its result (or its error) and every queued statement has run
Resume(p) ==
  /\ pc[p] \in {"done", "failed"}
  /\ pending[p] = {} /\ fetch[p] = {}
  /\ Apply(p, IdleLocals)
  /\ call' = [call EXCEPT ![p] = NoCall]
  /\ prior' = [prior EXCEPT ![p] = {}]
  /\ UNCHANGED store

\* ------------------------------------------------------------- specifications
Quiet == \A q \in Procs : pc[q] = "idle"

\* SpecSeq: one caller, one call at a time, every exported function that
\* touches posts and tags, on a store that holds one user.
InitOneUser ==
  /\ LocalsInit
  /\ users = InsertUser({}, NewUser("u1"))
  /\ posts = {} /\ tags = {} /\ post_tags = {}

NextSeq ==
  \/ Quiet /\ \E ts \in TagSeqs : CallCreateTags(1, ts)
  \/ Quiet /\ \E a \in AuthorIds, ts \in TagSeqs : CallCreatePost(1, NewPost(a, ts))
  \/ Quiet /\ \E a \in AuthorIds : CallCreatePost(1, NewPostNoTags(a))
  \/ Quiet /\ \E i \in PostIds : CallUpdatePost(1, i, <<>>)
  \/ Quiet /\ \E i \in PostIds : CallUpdatePost(1, i, [title |-> "t2"])
  \/ Quiet /\ \E i \in PostIds, ts \in TagSeqs : CallUpdatePost(1, i, [tags |-> ts])
  \/ Quiet /\ \E i \in PostIds, ts \in TagSeqs :
                CallUpdatePost(1, i, [title |-> "t2", tags |-> ts])
  \/ Quiet /\ \E i \in PostIds : CallGetPostById(1, i)
  \/ Quiet /\ \E i \in AuthorIds : CallGetUserById(1, i)
  \/ Quiet /\ \E i \in AuthorIds : CallUpdateUser(1, i, <<>>)
  \/ CtInsert(1) \/ CtSelect(1) \/ CpInsert(1) \/ UpUpdate(1) \/ UpDelete(1)
  \/ GuUser(1) \/ GuList(1)
  \/ \E t \in pending[1] : LinkInsert(1, t)
  \/ \E f \in fetch[1] : FetchPost(1, f)
  \/ \E f \in fetch[1] : FetchTags(1, f)
  \/ \E f \in fetch[1] : FetchAuthor(1, f)
  \/ Resume(1)

SpecSeq == InitOneUser /\ [][NextSeq]_vars

\* Spec: two callers, one call each, every interleaving of their statements,
\* started on any store that calls made before can have left: one user, the
\* tags table of some createTags, post 1 or no post, post 1 linked to any
\* of the tags.
InitRace ==
  /\ LocalsInit
  /\ users = InsertUser({}, NewUser("u1"))
  /\ \E ts \in RaceSeqs : tags = InsertTags({}, ts)
  /\ \E a \in {{}, {1}} :
       /\ posts = {[id |-> 1, authorId |-> x, title |-> "t1", content |-> "c1"] : x \in a}
       /\ \E P \in SUBSET Ids(tags) :
            /\ (a = {} => P = {})
            /\ post_tags = {[postId |-> 1, tagId |-> t] : t \in P}

Next ==
  \/ \E p \in Procs, ts \in RaceSeqs : CallCreateTags(p, ts)
  \/ \E p \in Procs, ts \in RaceSeqs : CallCreatePost(p, NewPost(1, ts))
  \/ \E p \in Procs, i \in 1..MaxPosts, ts \in RaceSeqs :
       CallUpdatePost(p, i, [tags |-> ts])
  \/ \E p \in Procs : CtInsert(p)
  \/ \E p \in Procs : CtSelect(p)
  \/ \E p \in Procs : CpInsert(p)
  \/ \E p \in Procs : UpDelete(p)
  \/ \E p \in Procs : \E t \in pending[p] : LinkInsert(p, t)
  \/ \E p \in Procs : \E f \in fetch[p] : FetchPost(p, f)
  \/ \E p \in Procs : \E f \in fetch[p] : FetchTags(p, f)
  \/ \E p \in Procs : \E f \in fetch[p] : FetchAuthor(p, f)

Spec == InitRace /\ [][Next]_vars

\* SpecUsers: two callers, any number of calls on the users table, every
\* interleaving, started on the empty store.
NextUsers ==
  \/ \E p \in Procs, u \in Usernames : CallCreateUser(p, NewUser(u))
  \/ \E p \in Procs, i \in UserIds : CallUpdateUser(p, i, <<>>)
  \/ \E p \in Procs, i \in UserIds : CallUpdateUser(p, i, [name |-> "n2"])
  \/ \E p \in Procs, i \in UserIds, u \in Usernames :
       CallUpdateUser(p, i, [username |-> u])
  \/ \E p \in Procs : CuInsert(p)
  \/ \E p \in Procs : UuUpdate(p)
  \/ \E p \in Procs : Resume(p)

SpecUsers == Init /\ [][NextUsers]_vars

\* SpecRead: one caller and one call of any function that returns post
\* aggregates, started on any store that calls made before can have left:
\* one user, the tags table of some createTags, up to MaxPosts posts of
\* that user, each linked to any of the tags.  addTagsToPost may be called
\* with a tag object no row of tags stands for, and may be followed by
\* another call.
InitStores ==
  /\ LocalsInit
  /\ users = InsertUser({}, NewUser("u1"))
  /\ \E ts \in TagSeqs : tags = InsertTags({}, ts)
  /\ \E n \in 0..MaxPosts :
       posts = {[id |-> i, authorId |-> 1, title |-> "t1", content |-> "c1"] : i \in 1..n}
  /\ \E L \in SUBSET (Ids(posts) \X Ids(tags)) :
       post_tags = {[postId |-> x[1], tagId |-> x[2]] : x \in L}

NextRead ==
  \/ Quiet /\ \E ts \in TagSeqs : CallCreatePost(1, NewPost(1, ts))
  \/ Quiet /\ \E i \in PostIds, ts \in TagSeqs : CallUpdatePost(1, i, [tags |-> ts])
  \/ Quiet /\ \E i \in PostIds : CallGetPostById(1, i)
  \/ Quiet /\ \E i \in PostIds, T \in SUBSET (tags \cup {NoSuchTag}) :
                CallAddTagsToPost(1, i, T)
  \/ Quiet /\ CallGetAllPosts(1)
  \/ Quiet /\ \E i \in AuthorIds : CallGetPostsByUser(1, i)
  \/ Quiet /\ \E n \in Names : CallGetPostsByTagName(1, n)
  \/ Quiet /\ \E i \in AuthorIds : CallGetUserById(1, i)
  \/ CtInsert(1) \/ CtSelect(1) \/ CpInsert(1) \/ UpDelete(1)
  \/ GuUser(1) \/ GuList(1) \/ PuList(1) \/ AllList(1) \/ TnList(1)
  \/ \E t \in pending[1] : LinkInsert(1, t)
  \/ \E f \in fetch[1] : FetchPost(1, f)
  \/ \E f \in fetch[1] : FetchTags(1, f)
  \/ \E f \in fetch[1] : FetchAuthor(1, f)
  \/ call[1].name = "addTagsToPost" /\ Resume(1)

SpecRead == InitStores /\ [][NextRead]_vars

\* ------------------------------------------------------------- claims
NamesOf(rows) == {t.name : t \in rows}
IdsOfNames(D) == {t.id : t \in {x \in tags : x.name \in D}}
\* caller p's call is updatePost with a non-empty tags entry
Reconciles(p) ==
  /\ call[p].name = "updatePost"
  /\ HasTags(call[p].fields)
  /\ call[p].fields.tags # <<>>
\* caller p took this step
Acts(p) == Locals(p)' # Locals(p)

\* C1: in SpecSeq (no other call interleaved), updatePost(postId, {tags: D})
\* with D non-empty on an existing post completes; once it has returned, the
\* post_tags rows of postId are exactly the ids of the tags named in D, and
\* the one aggregate it returns carries exactly the names in D.
C1_Reconciliation ==
  \A p \in Procs :
    Reconciles(p) =>
      LET D == Range(call[p].fields.tags) IN
      /\ (pc[p] = "failed" => call[p].id \notin Ids(posts))
      /\ (pc[p] = "done" =>
            /\ LinkedTagIds(call[p].id) = IdsOfNames(D)
            /\ NamesOf(TagsOfPost(call[p].id)) = D
            /\ ret[p].kind = "post"
            /\ Cardinality(ret[p].val) = 1
            /\ \A a \in ret[p].val : a.id = call[p].id /\ NamesOf(a.tags) = D)

\* a reconciliation has returned that unlinked a prior tag and kept another
C1_Witness ==
  \E p \in Procs :
    /\ Reconciles(p) /\ pc[p] = "done"
    /\ prior[p] \ LinkedTagIds(call[p].id) # {}
    /\ prior[p] \cap LinkedTagIds(call[p].id) # {}

\* C2: the tags table holds at most one row per name in every reachable
\* state, and no step removes a tag row or changes it, so a name that is
\* present keeps its id.
C2_TagUniqueness ==
  /\ [](\A t1, t2 \in tags : t1.name = t2.name => t1 = t2)
  /\ [][tags \subseteq tags']_vars

\* both callers submitted "a", one of them twice in one call, and both are done
C2_Witness ==
  /\ \A p \in Procs : pc[p] = "done" /\ "a" \in Range(TagNames(call[p]))
  /\ \E p \in Procs : TagNames(call[p]) = <<"a", "a">>
  /\ \E t \in tags : t.name = "a"

\* C3: whatever the other caller does, the rows createTags hands back for a
\* non-empty name sequence are rows of the tags table, exactly one for each
\* distinct requested name and none for another name; a createTags call
\* returns them only after its insert and then its select have run.
C3_CreateTagsUpsertGet ==
  \A p \in Procs :
    /\ tagList[p].def =>
         /\ tagList[p].rows \subseteq tags
         /\ NamesOf(tagList[p].rows) = Range(TagNames(call[p]))
         /\ Cardinality(tagList[p].rows) = Cardinality(Range(TagNames(call[p])))
    /\ (call[p].name = "createTags" /\ call[p].fields.tags # <<>> /\ pc[p] # "idle") =>
         /\ pc[p] \in {"ct_insert", "ct_select", "done"}
         /\ (pc[p] = "done" =>
               tagList[p].def /\ ret[p] = [kind |-> "tags", val |-> tagList[p].rows])

\* createTags(["a","b"]) has returned while the other caller's call names "a" or "b" too
C3_Witness ==
  \E p, q \in Procs :
    /\ p # q
    /\ call[p].name = "createTags" /\ pc[p] = "done"
    /\ call[p].fields.tags = <<"a", "b">>
    /\ pc[q] \in {"ct_select", "up_delete", "links", "done"}
    /\ Range(TagNames(call[q])) # {}

\* C4 (as claimed): createPost by an existing author never throws, whatever
\* the tag-name sequence, and returns the post with exactly the requested names.
C4_CreatePostAnyTags ==
  \A p \in Procs :
    (call[p].name = "createPost" /\ call[p].fields.authorId \in Ids(users)) =>
      /\ pc[p] # "failed"
      /\ (pc[p] = "done" =>
            /\ ret[p].kind = "post" /\ ret[p].val # {}
            /\ \A a \in ret[p].val :
                 NamesOf(a.tags) = Range(TagsOrDefault(call[p].fields)))

\* C5 (as claimed): updatePost(postId, {tags: []}) on an existing post never
\* throws, and once it has returned the post has no post_tags row and the
\* returned aggregate has no tags.
C5_EmptyTagsDropsAll ==
  \A p \in Procs :
    (/\ call[p].name = "updatePost" /\ HasTags(call[p].fields)
     /\ call[p].fields.tags = <<>> /\ call[p].id \in Ids(posts)) =>
      /\ pc[p] # "failed"
      /\ (pc[p] = "done" =>
            /\ LinkedTagIds(call[p].id) = {}
            /\ \A a \in ret[p].val : a.tags = {})

\* the rows an `update posts set <keys of fields> where id = pid` may leave
\* in place of the posts table: no row added or removed, no other row and no
\* unnamed column changed
OnlyNamedColumnsChange(pid, fields) ==
  /\ Ids(posts') = Ids(posts) /\ Cardinality(posts') = Cardinality(posts)
  /\ \A r \in posts : \E r2 \in posts' :
       /\ r2.id = r.id
       /\ (r.id # pid => r2 = r)
       /\ \A k \in DOMAIN r \ Keys(fields) : r2[k] = r[k]

\* C6: no step of an updatePost call whose field mapping has no tags entry
\* changes post_tags, tags or users, and in posts it changes at most the
\* named columns of the row whose id is postId.
C6_AbsentTagsLeavesJoin ==
  [][\A p \in Procs :
       (call[p].name = "updatePost" /\ ~HasTags(call[p].fields) /\ Acts(p)) =>
         /\ UNCHANGED <<users, tags, post_tags>>
         /\ OnlyNamedColumnsChange(call[p].id, call[p].fields)]_vars

\* updatePost(i, {title}) has returned: post i has the new title and still
\* its links, and another post keeps its old title
C6_Witness ==
  \E p \in Procs :
    /\ call[p].name = "updatePost" /\ ~HasTags(call[p].fields) /\ pc[p] = "done"
    /\ Keys(call[p].fields) = {"title"}
    /\ LinkedTagIds(call[p].id) # {}
    /\ \E r, r2 \in posts :
         r.id = call[p].id /\ r.title = "t2" /\ r2.id # r.id /\ r2.title = "t1"

\* C7 (as claimed): once two updatePost calls on the same post, with desired
\* tag sets D1 and D2, have both returned, the post's join rows are exactly
\* the tags of D1 or exactly the tags of D2.
C7_LastWriterWins ==
  \A p, q \in Procs :
    (/\ p # q /\ Reconciles(p) /\ Reconciles(q) /\ call[p].id = call[q].id
     /\ pc[p] = "done" /\ pc[q] = "done") =>
      \/ LinkedTagIds(call[p].id) = IdsOfNames(Range(call[p].fields.tags))
      \/ LinkedTagIds(call[p].id) = IdsOfNames(Range(call[q].fields.tags))

\* C8: the users table holds at most one row per username in every reachable
\* state; the insert statement of createUser, when no row has the username,
\* adds exactly one row and returns it, and when a row has it, changes
\* nothing, returns undefined and throws nothing; after it exactly one row
\* has the username.
C8_CreateUserConflict ==
  /\ [](\A u1, u2 \in users : u1.username = u2.username => u1 = u2)
  /\ [][\A p \in Procs :
         (pc[p] = "cu_insert" /\ Acts(p)) =>
           LET name == call[p].fields.username
               had == \E u \in users : u.username = name
           IN /\ pc'[p] = "done" /\ err'[p] = ""
              /\ had => (users' = users /\ ret'[p].kind = "undefined")
              /\ ~had => /\ ret'[p].kind = "user"
                         /\ Cardinality(ret'[p].val) = 1
                         /\ ret'[p].val \cap users = {}
                         /\ users' = users \cup ret'[p].val
                         /\ \A u \in ret'[p].val : u.username = name
              /\ Cardinality({u \in users' : u.username = name}) = 1]_vars

\* two createUser calls with one username have returned: one got the row,
\* the other got nothing
C8_Witness ==
  \E p, q \in Procs :
    /\ p # q /\ pc[p] = "done" /\ pc[q] = "done"
    /\ call[p].name = "createUser" /\ call[q].name = "createUser"
    /\ call[p].fields.username = call[q].fields.username
    /\ ret[p].kind = "user" /\ ret[q].kind = "undefined"

\* C9: no step of a getUserById or getPostById call changes the store; the
\* user select of getUserById, when no row has the id, makes the call return
\* undefined with nothing thrown; the post select of getPostById, when no
\* row has the id, makes the call throw PostNotFoundError with no tag or
\* author query left to issue.
C9_AbsenceHandling ==
  [][\A p \in Procs :
       (call[p].name \in {"getUserById", "getPostById"} /\ Acts(p)) =>
         /\ UNCHANGED store
         /\ (pc[p] = "gu_user" /\ call[p].id \notin Ids(users)) =>
              (pc'[p] = "done" /\ ret'[p].kind = "undefined" /\ err'[p] = "")
         /\ (pc[p] = "read" /\ call[p].id \notin Ids(posts)) =>
              (pc'[p] = "failed" /\ err'[p] = "PostNotFoundError" /\ fetch'[p] = {})]_vars

\* getPostById of an id with no row has thrown, and the store holds a post
C9_Witness ==
  \E p \in Procs :
    /\ call[p].name = "getPostById" /\ call[p].id \notin Ids(posts)
    /\ pc[p] = "failed" /\ err[p] = "PostNotFoundError"
    /\ posts # {}

\* the call of p has the empty field mapping
EmptyFields(c) == DOMAIN c.fields = {}

\* C10: updateUser(id, {}) returns undefined from the call itself, with no
\* statement issued; no step of updateUser(id, {}) or of updatePost(id, {})
\* changes a table; updatePost(id, {}) returns the aggregate of the post as
\* the store holds it.
C10_NoOpUpdate ==
  /\ [][\A p \in Procs :
         /\ (pc[p] = "idle" /\ call'[p].name = "updateUser" /\ EmptyFields(call'[p])) =>
              (pc'[p] = "done" /\ ret'[p].kind = "undefined" /\ UNCHANGED store)
         /\ (call[p].name \in {"updateUser", "updatePost"} /\ EmptyFields(call[p])
             /\ Acts(p)) => UNCHANGED store]_vars
  /\ [](\A p \in Procs :
          (call[p].name = "updatePost" /\ EmptyFields(call[p]) /\ pc[p] = "done") =>
            /\ ret[p].kind = "post"
            /\ ret[p].val = {Aggregate(r, TagsOfPost(r.id), AuthorOf(r)) :
                               r \in {x \in posts : x.id = call[p].id}}
            /\ ret[p].val # {})

\* updatePost(i, {}) has returned a post that has tags
C10_Witness ==
  \E p \in Procs :
    /\ call[p].name = "updatePost" /\ EmptyFields(call[p]) /\ pc[p] = "done"
    /\ \E a \in ret[p].val : a.tags # {}

\* the post aggregates a call has handed to its caller, or holds from a
\* finished getPostById
Elements(v) == IF DOMAIN v = {} THEN {} ELSE {v[i] : i \in DOMAIN v}
ReturnedAggregates(p) ==
  out[p] \cup
  (CASE pc[p] = "done" /\ ret[p].kind = "post" -> ret[p].val
     [] pc[p] = "done" /\ ret[p].kind = "posts" -> Elements(ret[p].val)
     [] pc[p] = "done" /\ ret[p].kind = "user" /\ call[p].name = "getUserById" ->
          UNION {Elements(u.posts) : u \in ret[p].val}
     [] OTHER -> {})

\* C11: every post aggregate that getPostById, createPost, updatePost,
\* addTagsToPost, getAllPosts, getPostsByUser, getPostsByTagName return, and
\* every element of the posts of getUserById's result, has a tags and an
\* author field and no authorId field, and its author has no password field.
C11_AggregateShape ==
  \A p \in Procs : \A a \in ReturnedAggregates(p) :
    /\ {"tags", "author"} \subseteq DOMAIN a
    /\ "authorId" \notin DOMAIN a
    /\ \A u \in a.author : "password" \notin DOMAIN u

\* a call has returned an aggregate that has a tag and an author
C11_Witness ==
  \E p \in Procs :
    /\ pc[p] = "done" /\ call[p].name = "getPostsByTagName"
    /\ \E a \in ReturnedAggregates(p) : a.tags # {} /\ a.author # {}

\* C12 (as claimed): once a statement of a call has failed and the call
\* has thrown to its caller, no statement of that call changes the store
\* any more; in particular no link insert of an addTagsToPost whose caller
\* has the error adds a post_tags row.
C12_AbortOnStoreError ==
  [][\A p \in Procs : (pc[p] = "failed" /\ Acts(p)) => UNCHANGED store]_vars

\* caller p's call is createPost or updatePost
WritesPost(p) == call[p].name \in {"createPost", "updatePost"}

LinksExisting(p) ==
  /\ call[p].name = "addTagsToPost"
  /\ call[p].id \in Ids(posts)
  /\ Ids(tagList[p].rows) \subseteq Ids(tags)

\* C14: addTagsToPost(postId, tagList) on existing keys raises no error; at
\* every point the post's join rows are the rows it had at the call plus
\* the pairs whose insert has run, whatever the order of the inserts, so
\* once it has returned they are the prior rows plus one row per tag of
\* tagList; no step of it removes a row or adds a row for another pair, and
\* when every pair was linked before (the call repeated) no step changes
\* the store.
C14_LinkIdempotence ==
  /\ [](\A p \in Procs :
          LinksExisting(p) =>
            LET T == Ids(tagList[p].rows) IN
            /\ pc[p] # "failed"
            /\ LinkedTagIds(call[p].id) = prior[p] \cup (T \ pending[p])
            /\ (pc[p] = "done" =>
                  /\ LinkedTagIds(call[p].id) = prior[p] \cup T
                  /\ \A a \in ret[p].val : Ids(a.tags) = prior[p] \cup T))
  /\ [][\A p \in Procs :
         (LinksExisting(p) /\ Acts(p)) =>
           /\ post_tags \subseteq post_tags'
           /\ post_tags' \ post_tags \subseteq
                {[postId |-> call[p].id, tagId |-> t] : t \in Ids(tagList[p].rows)}
           /\ UNCHANGED <<users, posts, tags>>
           /\ (Ids(tagList[p].rows) \subseteq prior[p] => UNCHANGED store)]_vars

\* addTagsToPost has returned for two tags, one of them linked to the post
\* before the call and one not
C14_Witness ==
  \E p \in Procs :
    /\ LinksExisting(p) /\ pc[p] = "done"
    /\ Cardinality(tagList[p].rows) = 2
    /\ prior[p] \cap Ids(tagList[p].rows) # {}
    /\ Ids(tagList[p].rows) \ prior[p] # {}

\* the posts that have a post_tags row to the tag named n
PostsCarrying(n) == {r \in posts : LinkedTagIds(r.id) \cap IdsOfNames({n}) # {}}

\* C15: in SpecRead, getPostsByTagName(tagName) throws nothing and returns
\* a sequence: one aggregate for each post that has a post_tags row to the
\* tag of that name and none for another post, each the aggregate of its
\* post as the store holds it, in the order in which the id-listing query
\* gave the ids; the sequence is empty when no tag has the name or no post
\* carries it.
C15_PostsByTagName ==
  \A p \in Procs :
    call[p].name = "getPostsByTagName" =>
      LET n == call[p].fields.tagName IN
      /\ pc[p] # "failed"
      /\ (pc[p] = "done" =>
            /\ ret[p].kind = "posts"
            /\ DOMAIN ret[p].val = 1..Cardinality(PostsCarrying(n))
            /\ {ret[p].val[i].id : i \in DOMAIN ret[p].val} = Ids(PostsCarrying(n))
            /\ Len(listed[p]) = Cardinality(PostsCarrying(n))
            /\ \A i \in DOMAIN ret[p].val :
                 /\ ret[p].val[i].id = listed[p][i]
                 /\ \E r \in posts :
                      ret[p].val[i] = Aggregate(r, TagsOfPost(r.id), AuthorOf(r))
            /\ (PostsCarrying(n) = {} => ret[p].val = <<>>))

\* getPostsByTagName has returned two posts, listed with the higher id
\* first, from a store that has a tag of another name
C15_Witness ==
  \E p \in Procs :
    /\ call[p].name = "getPostsByTagName" /\ pc[p] = "done"
    /\ Len(ret[p].val) = 2
    /\ listed[p][1] > listed[p][2]
    /\ \E t \in tags : t.name # call[p].fields.tagName

\* no other caller's call writes join rows of the post of p's updatePost
NoOtherWriter(p) ==
  \A q \in Procs \ {p} :
    /\ ~(call[q].name = "updatePost" /\ call[q].id = call[p].id)
    /\ ~(call[q].name = "createPost" /\ postId[q] = call[p].id)

\* C16: while updatePost(postId, {tags: D}) with D non-empty is in flight
\* or has ended, and no other call writes join rows of that post, in every
\* state the post is linked to every tag of D it was linked to at the call,
\* and to no tag outside those it was linked to at the call and those of D;
\* so a read of the post's tags at any point sees every tag of P \cap D and
\* only tags of P or D.
C16_KeptLinksUntouched ==
  \A p \in Procs :
    (Reconciles(p) /\ pc[p] # "idle" /\ NoOtherWriter(p)) =>
      LET D == IdsOfNames(Range(call[p].fields.tags))
          P == prior[p]
      IN /\ P \cap D \subseteq LinkedTagIds(call[p].id)
         /\ LinkedTagIds(call[p].id) \subseteq P \cup D

\* an updatePost is between its delete and its inserts: a prior tag that is
\* not desired is unlinked, a prior tag that is desired is still linked, and
\* the other caller's call is in flight
C16_Witness ==
  \E p \in Procs :
    /\ Reconciles(p) /\ NoOtherWriter(p)
    /\ pc[p] = "links" /\ pending[p] = Ids(tagList[p].rows)
    /\ prior[p] \cap IdsOfNames(Range(call[p].fields.tags)) # {}
    /\ prior[p] \ LinkedTagIds(call[p].id) # {}
    /\ \E q \in Procs \ {p} : pc[q] \in {"ct_select", "links"}

\* the join rows of the posts other than pid
LinksOfOthers(table, pid) == {l \in table : l.postId # pid}

\* C17: under every interleaving, no step of an updatePost(postId, fields)
\* call deletes or inserts a post_tags row whose postId is another post's.
C17_ScopedToOnePost ==
  [][\A p \in Procs :
       (call[p].name = "updatePost" /\ Acts(p)) =>
         LinksOfOthers(post_tags', call[p].id) = LinksOfOthers(post_tags, call[p].id)]_vars

\* an updatePost has returned after unlinking a tag from its post while
\* another post is linked to that same tag
C17_Witness ==
  \E p \in Procs :
    /\ Reconciles(p) /\ pc[p] = "done"
    /\ \E t \in prior[p] \ LinkedTagIds(call[p].id) :
         \E l \in post_tags : l.postId # call[p].id /\ l.tagId = t

\* caller p's call is updatePost with a non-empty tags entry for a post id
\* that has no row
ReconcilesMissing(p) == Reconciles(p) /\ call[p].id \notin Ids(posts)

\* C18: in SpecSeq, updatePost(postId, {tags: D}) with D non-empty on a
\* post id that has no row never returns; it fails at a link insert, with
\* the store's error and not PostNotFoundError; when it has failed a tag
\* row exists for every name of D; at no point has the post id a post_tags
\* row.
C18_MissingPostLinkFails ==
  /\ [](\A p \in Procs :
          ReconcilesMissing(p) =>
            /\ pc[p] # "done"
            /\ LinkedTagIds(call[p].id) = {}
            /\ (pc[p] = "failed" =>
                  /\ err[p] = "StoreError"
                  /\ Range(call[p].fields.tags) \subseteq NamesOf(tags)
                  /\ tagList[p].rows \subseteq tags))
  /\ [][\A p \in Procs :
         (ReconcilesMissing(p) /\ pc[p] # "failed" /\ pc'[p] = "failed") =>
           (pc[p] = "links" /\ pending[p] # pending'[p])]_vars

\* updatePost with a title and two tag names on a missing post id has failed
\* with the store's error while the store holds a post, and the two tags exist
C18_Witness ==
  \E p \in Procs :
    /\ ReconcilesMissing(p) /\ pc[p] = "failed" /\ err[p] = "StoreError"
    /\ Keys(call[p].fields) = {"title"}
    /\ Cardinality(Range(call[p].fields.tags)) = 2
    /\ Cardinality(tags) = 2 /\ posts # {}

====
